---- MODULE Spec2Model ----
(***************************************************************************)
(* Model of bake_light.py: one run of the script against the host scene.   *)
(*                                                                         *)
(* Strings are sequences of one-character strings, so that upper(),        *)
(* replace(), endswith(), os.path.join() and os.path.abspath() are         *)
(* computed character by character as Python computes them.                *)
(* JSON values are tagged records [t, v].                                  *)
(*                                                                         *)
(* Environment: the host operators (import, export, delete, render) do not *)
(* fail for I/O reasons; the host rejects an enum argument outside its     *)
(* enum, as bpy does for the light type.                                   *)
(***************************************************************************)
EXTENDS Integers, Sequences, FiniteSets, TLC

(* ------------------------------ bounds --------------------------------- *)
\* largest number of keys of the JSON object in the settings file
MaxKeys == 2
\* objects in the scene before the script starts
MaxPre == 1
\* largest number of objects one import adds
MaxImport == 2

(* ------------------------------ values --------------------------------- *)
Str(s) == [t |-> "str", v |-> s]
Num(n) == [t |-> "num", v |-> n]
Bool(b) == [t |-> "bool", v |-> b]
None == [t |-> "none"]

\* Python truthiness of a value (if settings.debug:)
Truthy(x) ==
    CASE x.t = "bool" -> x.v
      [] x.t = "num" -> x.v # 0
      [] x.t = "str" -> x.v # <<>>
      [] OTHER -> FALSE

LowerCase == <<"a","b","c","d","e","f","g","h","i","j","k","l","m",
               "n","o","p","q","r","s","t","u","v","w","x","y","z">>
UpperCase == <<"A","B","C","D","E","F","G","H","I","J","K","L","M",
               "N","O","P","Q","R","S","T","U","V","W","X","Y","Z">>

upper_char(c) ==
    IF \E i \in 1..26 : LowerCase[i] = c
    THEN UpperCase[CHOOSE i \in 1..26 : LowerCase[i] = c]
    ELSE c

\* light_type stored as read, the call of upper() left out
upper_omitted(s) == s

\* str.upper()
upper(s) == [i \in 1..Len(s) |-> upper_char(s[i])]

\* str.endswith(suffix)
endswith(s, suffix) ==
    /\ Len(s) >= Len(suffix)
    /\ SubSeq(s, Len(s) - Len(suffix) + 1, Len(s)) = suffix

\* str.startswith(prefix)
startswith(s, prefix) ==
    /\ Len(s) >= Len(prefix)
    /\ SubSeq(s, 1, Len(prefix)) = prefix

\* str.replace(old, new): every non-overlapping occurrence, left to right
RECURSIVE replace(_, _, _)
replace(s, old, new) ==
    IF Len(s) < Len(old) THEN s
    ELSE IF startswith(s, old)
         THEN new \o replace(SubSeq(s, Len(old) + 1, Len(s)), old, new)
         ELSE <<Head(s)>> \o replace(Tail(s), old, new)

\* posixpath.join(a, b)
path_join(a, b) ==
    IF startswith(b, <<"/">>) THEN b
    ELSE IF a = <<>> \/ endswith(a, <<"/">>) THEN a \o b
    ELSE a \o <<"/">> \o b

\* str.split("/")
RECURSIVE split(_)
split(s) ==
    IF \A i \in 1..Len(s) : s[i] # "/" THEN <<s>>
    ELSE LET i == CHOOSE j \in 1..Len(s) :
                      s[j] = "/" /\ \A k \in 1..(j - 1) : s[k] # "/"
         IN <<SubSeq(s, 1, i - 1)>> \o split(SubSeq(s, i + 1, Len(s)))

\* the component loop of posixpath.normpath for an absolute path
RECURSIVE norm_comps(_, _)
norm_comps(comps, acc) ==
    IF comps = <<>> THEN acc
    ELSE LET c == Head(comps) IN
         IF c = <<>> \/ c = <<".">> THEN norm_comps(Tail(comps), acc)
         ELSE IF c = <<".", ".">>
              THEN norm_comps(Tail(comps),
                              IF acc = <<>> THEN acc
                              ELSE SubSeq(acc, 1, Len(acc) - 1))
              ELSE norm_comps(Tail(comps), Append(acc, c))

RECURSIVE join_comps(_)
join_comps(comps) ==
    IF comps = <<>> THEN <<>>
    ELSE <<"/">> \o Head(comps) \o join_comps(Tail(comps))

\* the process's working directory
cwd == <<"/", "w">>

\* os.path.abspath(p)
abspath(p) ==
    LET full == IF startswith(p, <<"/">>) THEN p ELSE path_join(cwd, p)
        comps == norm_comps(split(full), <<>>)
    IN IF comps = <<>> THEN <<"/">> ELSE join_comps(comps)

(* ----------------------------- literals -------------------------------- *)
settings_file == "settings.json"

GLB == <<".", "g", "l", "b">>

\* class attributes of Settings
Settings ==
    [input_path |-> Str(<<".", "/", "s", "r", "c">>),
     input_file |-> Str(<<>>),
     export_path |-> Str(<<".", "/", "d", "s", "t">>),
     output_file_suffix |-> Str(<<"_", "b", "a", "k", "e", "d">>),
     bake_image_width |-> Num(1024),
     bake_image_height |-> Num(1024),
     light_type |-> Str(<<"P", "O", "I", "N", "T">>),
     light_energy |-> Num(1000),
     debug |-> Bool(FALSE)]

Fields == DOMAIN Settings

\* dict.get(key, default)
get(data, key, default) ==
    IF key \in DOMAIN data THEN data[key] ELSE default

(* --------------------------- the settings file ------------------------- *)
Keys == Fields \cup {"comment"}

\* the values a settings file is given per key
KeyVals(k) ==
    CASE k = "input_path" ->
            {Str(<<".", "/", "s", "r", "c", "/">>)}
      [] k = "input_file" ->
            {Str(<<"a", ".", "g", "l", "b">>),
             Str(<<"a", ".", "g", "l", "t", "f">>),
             Str(<<"a", ".", "g", "l", "b", ".", "g", "l", "b">>)}
      [] k = "export_path" ->
            {Str(<<".", "/", "s", "r", "c">>)}
      [] k = "output_file_suffix" -> {Str(<<>>)}
      [] k = "bake_image_width" -> {Num(512)}
      [] k = "bake_image_height" -> {Num(256)}
      [] k = "light_type" ->
            {Str(<<"s", "u", "n">>), Str(<<"S", "p", "o", "t">>),
             Str(<<"f", "o", "o">>), Num(5)}
      [] k = "light_energy" -> {Num(50)}
      [] k = "debug" -> {Bool(TRUE)}
      [] OTHER -> {Str(<<"x">>)}

EmptyDoc == [k \in {} |-> None]

RECURSIVE DocsOver(_)
DocsOver(S) ==
    IF S = {} THEN {EmptyDoc}
    ELSE LET k == CHOOSE x \in S : TRUE IN
         {d @@ (k :> v) : d \in DocsOver(S \ {k}), v \in KeyVals(k)}

\* the JSON objects with at most MaxKeys keys
Docs ==
    UNION {DocsOver(S) : S \in {T \in SUBSET Keys : Cardinality(T) <= MaxKeys}}

\* what a path of the disk holds: no file, a file json.load rejects, or a
\* JSON object
Missing == [t |-> "missing"]
Invalid == [t |-> "invalid"]
Obj(d) == [t |-> "object", v |-> d]

Paths == {"settings.json", "custom.json"}

(* ------------------------- Settings.load_from_json --------------------- *)
Raise(e) == [exc |-> e, value |-> None]
Return(x) == [exc |-> "", value |-> x]

load_from_json(fs, filepath) ==
    IF fs[filepath] = Missing THEN Raise("FileNotFoundError")
    ELSE IF fs[filepath] = Invalid THEN Raise("JSONDecodeError")
    ELSE LET data == fs[filepath].v
             lt == get(data, "light_type", Settings.light_type)
         IN IF lt.t # "str" THEN Raise("AttributeError")
            ELSE Return(
              [input_path |-> get(data, "input_path", Settings.input_path),
               input_file |-> get(data, "input_file", Settings.input_file),
               export_path |-> get(data, "export_path", Settings.export_path),
               output_file_suffix |->
                   get(data, "output_file_suffix", Settings.output_file_suffix),
               bake_image_width |->
                   get(data, "bake_image_width", Settings.bake_image_width),
               bake_image_height |->
                   get(data, "bake_image_height", Settings.bake_image_height),
               light_type |-> Str(upper(lt.v)),
               light_energy |-> get(data, "light_energy", Settings.light_energy),
               debug |-> get(data, "debug", Settings.debug)])

\* try: ... except Exception: return None
init_from_settings(fs, file_path) ==
    load_from_json(fs, file_path).value

\* None where a settings-file path is expected
NoPath == "None"

\* read_args(): the one argument after "--", else None
read_args(argv) ==
    IF \E i \in 1..Len(argv) : argv[i] = "--"
    THEN LET i == CHOOSE j \in 1..Len(argv) :
                      argv[j] = "--" /\ \A k \in 1..(j - 1) : argv[k] # "--"
             rest == SubSeq(argv, i + 1, Len(argv))
         IN IF Len(rest) = 1 THEN rest[1] ELSE NoPath
    ELSE NoPath

(* ------------------------------ the host ------------------------------- *)
\* bpy.types.Light.type: the enum bpy.data.lights.new accepts
LightTypes ==
    {<<"P", "O", "I", "N", "T">>, <<"S", "U", "N">>,
     <<"S", "P", "O", "T">>, <<"A", "R", "E", "A">>}

\* object ids: 0 is no object; the objects the script adds get fixed ids
NoObject == 0
PreIds == 1..MaxPre
ImportIds == (MaxPre + 1)..(MaxPre + MaxImport)
LightId == MaxPre + MaxImport + 1
CameraId == MaxPre + MaxImport + 2

Origin == <<0, 0, 0>>

Object(type, location, hidden) ==
    [type |-> type, location |-> location, hidden |-> hidden]

\* the objects a scene may hold at the start: a mesh or a hidden mesh (which
\* select_all does not reach)
PreObjects ==
    {Object("MESH", <<1, 1, 1>>, FALSE), Object("MESH", <<1, 1, 1>>, TRUE)}

\* the scenes the script may be started in
Scenes == UNION {[S -> PreObjects] : S \in SUBSET PreIds}

\* the command lines the script may be started with
CommandLines ==
    {<<"blender">>,
     <<"blender", "--", "custom.json">>,
     <<"blender", "--", "settings.json">>,
     <<"blender", "--", "custom.json", "settings.json">>}

\* the disks the script may be started on: settings.json is absent, not
\* JSON or any of the objects; custom.json is an object that sets debug
Disks ==
    {[p \in Paths |-> IF p = settings_file THEN c
                      ELSE Obj(EmptyDoc @@ ("debug" :> Bool(TRUE)))] :
        c \in {Missing, Invalid} \cup {Obj(d) : d \in Docs}}

\* the host's render settings before the script runs
HostRender ==
    [resolution_x |-> 1920, resolution_y |-> 1080,
     resolution_percentage |-> 50, engine |-> "BLENDER_EEVEE",
     filepath |-> "/tmp/"]

\* the DESELECT call left out of export_mesh
select_all_no_deselect(action, objs, sel) ==
    IF action = "SELECT"
    THEN sel \cup {i \in DOMAIN objs : ~objs[i].hidden}
    ELSE sel

\* bpy.ops.object.select_all(action=...): acts on the visible objects
select_all(action, objs, sel) ==
    IF action = "SELECT"
    THEN sel \cup {i \in DOMAIN objs : ~objs[i].hidden}
    ELSE {i \in sel : objs[i].hidden}

\* bpy.ops.object.delete(): the scene without the selected objects
delete(objs, sel) == [i \in DOMAIN objs \ sel |-> objs[i]]

(* ------------------------------ the state ------------------------------ *)
VARIABLES
    pc,           \* the statement of __main__ to run next
    sys_argv,     \* sys.argv
    disk,         \* path -> content of the settings files
    objects,      \* bpy.data.objects: id -> object
    light_data,   \* bpy.data.lights of the light objects: id -> [type, energy]
    selected,     \* ids of the selected objects
    active,       \* view_layer.objects.active
    cursor,       \* scene.cursor.location
    camera,       \* scene.camera
    render,       \* scene.render
    dirs,         \* directories os.makedirs created
    argv,         \* __main__'s argv
    settings,     \* __main__'s settings
    mesh,         \* __main__'s mesh
    error,        \* the exception that ended the run, "" if none
    ops,          \* history: the operations performed, in order
    loaded_from,  \* history: the path load_from_json was called with
    imported,     \* history: the filepath arguments of the import operator
    exported,     \* history: the calls of the export operator
    at_export     \* history: selection, active object, dirs at export_mesh entry

vars ==
    <<pc, sys_argv, disk, objects, light_data, selected, active, cursor,
      camera, render, dirs, argv, settings, mesh, error, ops, loaded_from,
      imported, exported, at_export>>

host == <<objects, light_data, selected, active, cursor, camera, render, dirs>>
inputs == <<sys_argv, disk>>

Init ==
    /\ pc = "cleanup"
    /\ sys_argv \in CommandLines
    /\ disk \in Disks
    /\ objects \in Scenes
    /\ light_data = [i \in {} |-> None]
    /\ selected = {}
    /\ active = NoObject
    /\ cursor = <<1, 1, 1>>
    /\ camera = NoObject
    /\ render = HostRender
    /\ dirs = {}
    /\ argv = NoPath
    /\ settings = None
    /\ mesh = NoObject
    /\ error = ""
    /\ ops = <<>>
    /\ loaded_from = NoPath
    /\ imported = <<>>
    /\ exported = <<>>
    /\ at_export = None

\* __main__ with export_mesh called before setup_light
main_swapped(at, s) ==
    CASE at = "cleanup" -> "read_args"
      [] at = "read_args" -> "init"
      [] at = "init" -> IF s # None THEN "import" ELSE "debug"
      [] at = "import" -> "export"
      [] at = "export" -> "light"
      [] at = "light" -> "debug"
      [] OTHER -> "done"

\* __main__: the statement after the one at `at`
main(at, s) ==
    CASE at = "cleanup" -> "read_args"
      [] at = "read_args" -> "init"
      [] at = "init" -> IF s # None THEN "import" ELSE "debug"
      [] at = "import" -> "light"
      [] at = "light" -> "export"
      [] at = "export" -> "debug"
      [] OTHER -> "done"

(* ------------------------------ cleanup -------------------------------- *)
cleanup ==
    /\ pc = "cleanup"
    /\ LET sel == select_all("SELECT", objects, selected) IN
         /\ objects' = delete(objects, sel)
         /\ selected' = {}
         /\ active' = IF active \in sel THEN NoObject ELSE active
    /\ cursor' = Origin
    /\ ops' = Append(ops, "cleanup")
    /\ pc' = main("cleanup", settings)
    /\ UNCHANGED <<inputs, light_data, camera, render, dirs, argv, settings,
                   mesh, error, loaded_from, imported, exported, at_export>>

(* ------------------------ argv = read_args() --------------------------- *)
ReadArgs ==
    /\ pc = "read_args"
    /\ argv' = read_args(sys_argv)
    /\ pc' = main("read_args", settings)
    /\ UNCHANGED <<inputs, host, settings, mesh, error, ops, loaded_from,
                   imported, exported, at_export>>

(* ------------- settings = init_from_settings(settings_file) ------------ *)
InitFromSettings ==
    /\ pc = "init"
    /\ settings' = init_from_settings(disk, settings_file)
    /\ loaded_from' = settings_file
    /\ ops' = Append(ops, "load")
    /\ pc' = main("init", settings')
    /\ UNCHANGED <<inputs, host, argv, mesh, error, imported, exported,
                   at_export>>

(* --------------------- mesh = import_mesh(settings) -------------------- *)
\* the filepath import_mesh passes to the import operator
input_filepath(s) ==
    LET file_name == IF endswith(s.input_path.v, <<"/">>)
                     THEN SubSeq(s.input_path.v, 1, Len(s.input_path.v) - 1)
                     ELSE s.input_path.v
    IN abspath(path_join(file_name, s.input_file.v))

\* before_import not subtracted
imported_objects_all(after, before) == after

\* set(bpy.data.objects) - before_import

imported_objects(after, before) == after \ before

\* [obj for obj in imported_objects if obj.type == 'MESH']
mesh_objects(objs, ids) == {i \in ids : objs[i].type = "MESH"}

\* bpy.ops.import_scene.gltf: adds n new objects, selects them and makes
\* the first of them active
import_scene(n, types) ==
    /\ objects' = [i \in DOMAIN objects \cup (MaxPre + 1)..(MaxPre + n) |->
                      IF i \in DOMAIN objects THEN objects[i]
                      ELSE Object(types[i - MaxPre], Origin, FALSE)]
    /\ selected' = (MaxPre + 1)..(MaxPre + n)
    /\ active' = IF n = 0 THEN active ELSE MaxPre + 1

import_mesh ==
    /\ pc = "import"
    /\ LET before_import == DOMAIN objects IN
         /\ \E n \in 0..MaxImport :
              \E types \in [1..n -> {"MESH", "EMPTY"}] :
                import_scene(n, types)
         /\ imported' = Append(imported, input_filepath(settings))
         /\ ops' = Append(ops, "import")
         /\ LET found == mesh_objects(objects',
                             imported_objects(DOMAIN objects', before_import))
            IN IF found # {} THEN mesh' \in found ELSE mesh' = NoObject
    /\ pc' = main("import", settings)
    /\ UNCHANGED <<inputs, light_data, cursor, camera, render, dirs, argv,
                   settings, error, loaded_from, exported, at_export>>

(* ------------------------- setup_light(settings) ----------------------- *)
setup_light ==
    /\ pc = "light"
    /\ IF settings.light_type.v \notin LightTypes
       THEN \* bpy.data.lights.new rejects the enum value
            /\ error' = "TypeError"
            /\ pc' = "crashed"
            /\ UNCHANGED <<objects, light_data, ops>>
       ELSE /\ light_data' =
                  light_data @@ (LightId :> [type |-> settings.light_type.v,
                                             energy |-> settings.light_energy])
            /\ objects' =
                  objects @@ (LightId :> Object("LIGHT", <<5, 5, 5>>, FALSE))
            /\ ops' = Append(ops, "light")
            /\ pc' = main("light", settings)
            /\ UNCHANGED error
    /\ UNCHANGED <<inputs, selected, active, cursor, camera, render, dirs,
                   argv, settings, mesh, loaded_from, imported, exported,
                   at_export>>

(* ----------------------- export_mesh(mesh, settings) ------------------- *)
\* the name of the exported file
output_filename(s) ==
    replace(s.input_file.v, GLB, s.output_file_suffix.v \o GLB)

\* the filepath export_mesh passes to the export operator
export_filepath(s) == path_join(s.export_path.v, output_filename(s))

\* not mesh or mesh.type != 'MESH'
not_valid_mesh(m, objs) == m = NoObject \/ objs[m].type # "MESH"

export_mesh ==
    /\ pc = "export"
    /\ at_export' = [selected |-> selected, active |-> active, dirs |-> dirs]
    /\ dirs' = dirs \cup {abspath(settings.export_path.v)}
    /\ LET deselected == select_all("DESELECT", objects, selected) IN
         IF not_valid_mesh(mesh, objects)
         THEN /\ selected' = deselected
              /\ UNCHANGED <<active, exported, ops>>
         ELSE /\ selected' = deselected \cup {mesh}
              /\ active' = mesh
              /\ exported' = Append(exported,
                    [filepath |-> export_filepath(settings),
                     export_format |-> "GLB",
                     use_selection |-> TRUE,
                     selection |-> selected',
                     active |-> active',
                     mesh |-> mesh])
              /\ ops' = Append(ops, "export")
    /\ pc' = main("export", settings)
    /\ UNCHANGED <<inputs, objects, light_data, cursor, camera, render, argv,
                   settings, mesh, error, loaded_from, imported>>

(* ----------------------- if settings.debug: debug() -------------------- *)
\* debug(): add a camera, make it the scene camera, render a still image
debug ==
    /\ objects' = objects @@ (CameraId :> Object("CAMERA", <<-5, -5, 5>>, FALSE))
    /\ selected' = {CameraId}
    /\ active' = CameraId
    /\ camera' = CameraId
    /\ render' = [resolution_x |-> 256, resolution_y |-> 256,
                  resolution_percentage |-> 100, engine |-> "CYCLES",
                  filepath |-> "debug/out.png"]
    /\ ops' = Append(ops, "render")

DebugStep ==
    /\ pc = "debug"
    /\ IF settings = None
       THEN \* None has no attribute debug
            /\ error' = "AttributeError"
            /\ pc' = "crashed"
            /\ UNCHANGED <<objects, selected, active, camera, render, ops>>
       ELSE /\ IF Truthy(settings.debug)
               THEN debug
               ELSE UNCHANGED <<objects, selected, active, camera, render, ops>>
            /\ pc' = main("debug", settings)
            /\ UNCHANGED error
    /\ UNCHANGED <<inputs, light_data, cursor, dirs, argv, settings, mesh,
                   loaded_from, imported, exported, at_export>>

Next ==
    \/ cleanup
    \/ ReadArgs
    \/ InitFromSettings
    \/ import_mesh
    \/ setup_light
    \/ export_mesh
    \/ DebugStep

Spec == Init /\ [][Next]_vars

TypeOK == pc \in {"cleanup", "read_args", "init", "import", "light", "export",
                  "debug", "done", "crashed"}

(* ============================== properties ============================= *)
Ended == pc \in {"done", "crashed"}
Happened(op) == \E i \in 1..Len(ops) : ops[i] = op
Loaded == loaded_from # NoPath

\* the position of an operation in the order of a run
Rank(op) ==
    CASE op = "cleanup" -> 1
      [] op = "load" -> 2
      [] op = "import" -> 3
      [] op = "light" -> 4
      [] op = "export" -> 5
      [] op = "render" -> 6

(* ---- C1 ---- *)
\* C1: when the command line has exactly one argument after "--", the path
\* load_from_json is called with is that argument.
C1_LoadsFromArgument ==
    \A i \in 1..Len(sys_argv) :
        ( /\ sys_argv[i] = "--"
          /\ \A k \in 1..(i - 1) : sys_argv[k] # "--"
          /\ Len(sys_argv) = i + 1
          /\ Loaded )
        => loaded_from = sys_argv[i + 1]

(* ---- C2 ---- *)
\* u is s with every lower-case letter replaced by its upper-case letter
IsUpperOf(u, s) ==
    /\ Len(u) = Len(s)
    /\ \A i \in 1..Len(s) :
          \/ /\ u[i] = s[i]
             /\ \A j \in 1..26 : LowerCase[j] # s[i]
          \/ \E j \in 1..26 : LowerCase[j] = s[i] /\ UpperCase[j] = u[i]

\* C2: the record load_from_json returns has, per field, the value of the
\* JSON object when the key is present and the default when it is absent,
\* light_type upper-cased; a record is returned for every JSON object whose
\* light_type is absent or a string, whatever the other values and keys.
C2_FlatOverlay ==
    (Loaded /\ disk[loaded_from].t = "object") =>
        LET data == disk[loaded_from].v
            overlay(f) == IF f \in DOMAIN data THEN data[f] ELSE Settings[f]
        IN /\ (overlay("light_type").t = "str") <=> (settings # None)
           /\ settings # None =>
                /\ DOMAIN settings = Fields
                /\ \A f \in Fields \ {"light_type"} : settings[f] = overlay(f)
                /\ settings.light_type.t = "str"
                /\ IsUpperOf(settings.light_type.v, overlay("light_type").v)

\* a record loaded from an object with a lower-case light_type and one more key
C2_Witness ==
    /\ Loaded
    /\ settings # None
    /\ disk[loaded_from].t = "object"
    /\ "light_type" \in DOMAIN disk[loaded_from].v
    /\ settings.light_type # disk[loaded_from].v["light_type"]
    /\ "comment" \in DOMAIN disk[loaded_from].v

(* ---- C3 ---- *)
\* C3: the operations of a run occur in the order cleanup, load, import,
\* light, export, render, each at most once; import, light and export occur
\* only with a loaded record and only after cleanup and load.
C3_OperationOrder ==
    /\ \A i, j \in 1..Len(ops) : i < j => Rank(ops[i]) < Rank(ops[j])
    /\ (Happened("import") \/ Happened("light") \/ Happened("export")) =>
          /\ settings # None
          /\ Len(ops) >= 2
          /\ ops[1] = "cleanup"
          /\ ops[2] = "load"

\* a run in which all six operations happened
C3_Witness ==
    ops = <<"cleanup", "load", "import", "light", "export", "render">>

(* ---- C4 ---- *)
\* C4: at every call of the export operator the selection is exactly the mesh
\* passed in, the mesh is the active object and of type MESH, use_selection
\* is set; the operator is called once per call of export_mesh with a mesh.
C4_ExportSelection ==
    /\ Len(exported) <= 1
    /\ \A i \in 1..Len(exported) :
          /\ exported[i].selection = {exported[i].mesh}
          /\ exported[i].active = exported[i].mesh
          /\ exported[i].mesh = mesh
          /\ objects[mesh].type = "MESH"
          /\ exported[i].use_selection
    /\ (at_export # None /\ mesh # NoObject) => Len(exported) = 1

\* an export in a scene with a light, entered with two objects selected
C4_Witness ==
    /\ Len(exported) = 1
    /\ LightId \in DOMAIN objects
    /\ Cardinality(at_export.selected) >= 2

(* ---- C5 ---- *)
\* C5: the import operator is called at most once; the object import_mesh
\* returns is one the import added, is in the scene and is a MESH; it returns
\* None exactly when the import added no MESH.
C5_ImportReturnsNewMesh ==
    /\ Len(imported) <= 1
    /\ (pc \in {"light", "export", "debug", "done"} /\ settings # None) =>
          Len(imported) = 1
    /\ imported # <<>> =>
          /\ mesh # NoObject =>
                /\ mesh \notin PreIds
                /\ mesh \in ImportIds \cap DOMAIN objects
                /\ objects[mesh].type = "MESH"
          /\ mesh = NoObject <=>
                \A i \in ImportIds \cap DOMAIN objects : objects[i].type # "MESH"

\* an import into a scene that kept a mesh: no mesh was added, None returned
C5_Witness ==
    /\ imported # <<>>
    /\ \E i \in PreIds \cap DOMAIN objects : objects[i].type = "MESH"
    /\ ImportIds \cap DOMAIN objects # {}
    /\ mesh = NoObject

(* ---- C6 ---- *)
\* C6: for every loaded record, setup_light adds exactly one light object, of
\* type POINT, AREA or SUN equal to settings.light_type, with the energy of
\* the settings, at (5, 5, 5), and leaves every other object as it was.
C6_OneLightOfSettingsType ==
    [][pc = "light" =>
          /\ LightId \notin DOMAIN objects
          /\ DOMAIN objects' = DOMAIN objects \cup {LightId}
          /\ \A i \in DOMAIN objects : objects'[i] = objects[i]
          /\ objects'[LightId] = Object("LIGHT", <<5, 5, 5>>, FALSE)
          /\ light_data'[LightId].type = settings.light_type.v
          /\ light_data'[LightId].type \in
                {<<"P", "O", "I", "N", "T">>, <<"A", "R", "E", "A">>,
                 <<"S", "U", "N">>}
          /\ light_data'[LightId].energy = settings.light_energy]_vars

(* ---- C7 ---- *)
\* C7: at the end of a run the camera was added and the render invoked if and
\* only if a record was loaded with debug true; otherwise there is no camera
\* and the render settings are the host's.
C7_RenderIffDebug ==
    Ended =>
        LET on == settings # None /\ settings.debug = Bool(TRUE) IN
        /\ on <=> (Happened("render") /\ CameraId \in DOMAIN objects)
        /\ ~on => /\ CameraId \notin DOMAIN objects
                  /\ camera = NoObject
                  /\ render = HostRender
                  /\ ~Happened("render")

(* ---- C8 ---- *)
\* C8: when the settings file is missing, not valid JSON or has a light_type
\* that is not a string, init_from_settings returns None, no import, light,
\* export or render happens, and the run ends without an exception.
C8_LoadFailureContained ==
    ( /\ Loaded
      /\ \/ disk[loaded_from] \in {Missing, Invalid}
         \/ /\ disk[loaded_from].t = "object"
            /\ "light_type" \in DOMAIN disk[loaded_from].v
            /\ disk[loaded_from].v["light_type"].t # "str" )
    => /\ settings = None
       /\ ~Happened("import")
       /\ ~Happened("light")
       /\ ~Happened("export")
       /\ ~Happened("render")
       /\ pc # "crashed"
       /\ error = ""

(* ---- C9 ---- *)
\* C9: when export_mesh is given None or a non-mesh, it calls no export
\* operator and returns, leaving the selection, the active object and the
\* directories as they were at its entry.
C9_RejectionHasNoEffect ==
    (pc = "debug" /\ at_export # None /\ not_valid_mesh(mesh, objects)) =>
        /\ exported = <<>>
        /\ error = ""
        /\ selected = at_export.selected
        /\ active = at_export.active
        /\ dirs = at_export.dirs

(* ---- C10 ---- *)
\* C10: the path given to the export operator names another file than the
\* path given to the import operator; the exported name is the input name
\* with the suffix inserted once, before its final ".glb".
C10_ExportPathDiffers ==
    \A i \in 1..Len(exported) :
        LET name == settings.input_file.v IN
        /\ abspath(exported[i].filepath) # imported[1]
        /\ endswith(name, GLB)
        /\ exported[i].filepath =
              path_join(settings.export_path.v,
                        SubSeq(name, 1, Len(name) - Len(GLB))
                            \o settings.output_file_suffix.v \o GLB)

====
